---- MODULE Spec2Model ----
(***************************************************************************)
(* Model of the FuriRouter class (src/lib/furi-router.ts): the route       *)
(* tables, the registration calls, router mounting and request dispatch.   *)
(*                                                                         *)
(* A JavaScript string is modelled as the sequence of its characters, each *)
(* a one-character string, so that splitting, joining, character classes   *)
(* and regular-expression matching are computed and not assumed.           *)
(***************************************************************************)
EXTENDS Integers, Sequences, FiniteSets, TLC

(***************************************************************************)
(* Bound of the model: the number of configuration calls (registrations    *)
(* and mounts) made on the routers.                                        *)
(***************************************************************************)
MaxCalls == 3

(***************************************************************************)
(* Strings.                                                                *)
(***************************************************************************)
Letters ==
  {"a","b","c","d","e","f","g","h","i","j","k","l","m",
   "n","o","p","q","r","s","t","u","v","w","x","y","z",
   "A","B","C","D","E","F","G","H","I","J","K","L","M",
   "N","O","P","Q","R","S","T","U","V","W","X","Y","Z"}

Digits == {"0","1","2","3","4","5","6","7","8","9"}

\* The regular-expression class \w.
WordChars == Letters \cup Digits \cup {"_"}

\* The class [~\w/.-] of regexCheckStaticURL.
StaticChars == WordChars \cup {"~", "/", ".", "-"}

\* The class [:~\w/.-] of regexCheckNamedPath.
NamedChars == StaticChars \cup {":"}

\* The class [\w-.~] of the capturing group of a :name segment.
ParamChars == WordChars \cup {"-", ".", "~"}

\* The capturing group createNamedRouteSearchKey writes for a :name token,
\* kept as one element of the key.
Group == "([\\w-.~]+)"

\* String.prototype.split with a one-character separator.
RECURSIVE split(_, _)
split(s, sep) ==
  IF \A i \in 1..Len(s) : s[i] # sep
  THEN <<s>>
  ELSE LET i == CHOOSE i \in 1..Len(s) :
                  s[i] = sep /\ \A j \in 1..(i - 1) : s[j] # sep
       IN  <<SubSeq(s, 1, i - 1)>> \o split(SubSeq(s, i + 1, Len(s)), sep)

\* Array.prototype.join with a one-character separator.
RECURSIVE join(_, _)
join(tokens, sep) ==
  IF tokens = <<>> THEN <<>>
  ELSE IF Len(tokens) = 1 THEN tokens[1]
  ELSE tokens[1] \o <<sep>> \o join(Tail(tokens), sep)

\* s.replace(/\/$/, ''): drop one trailing slash.
stripTrailingSlash(s) ==
  IF Len(s) > 0 /\ s[Len(s)] = "/" THEN SubSeq(s, 1, Len(s) - 1) ELSE s

\* The segments path.normalize keeps: empty and "." segments are dropped,
\* ".." removes the segment before it.
RECURSIVE normalizeSegments(_, _)
normalizeSegments(segs, acc) ==
  IF segs = <<>> THEN acc
  ELSE LET g == Head(segs)
       IN  IF g = <<>> \/ g = <<".">>
           THEN normalizeSegments(Tail(segs), acc)
           ELSE IF g = <<".", ".">>
           THEN normalizeSegments(Tail(segs),
                  IF acc = <<>> THEN acc ELSE SubSeq(acc, 1, Len(acc) - 1))
           ELSE normalizeSegments(Tail(segs), Append(acc, g))

\* path.normalize (posix) of an absolute or relative path.
pathNormalize(p) ==
  IF p = <<>> THEN <<".">>
  ELSE LET isAbsolute == p[1] = "/"
           trailingSeparator == p[Len(p)] = "/"
           body == join(normalizeSegments(split(p, "/"), <<>>), "/")
       IN  IF body = <<>>
           THEN IF isAbsolute THEN <<"/">>
                ELSE IF trailingSeparator THEN <<".", "/">> ELSE <<".">>
           ELSE (IF isAbsolute THEN <<"/">> ELSE <<>>) \o body
                \o (IF trailingSeparator THEN <<"/">> ELSE <<>>)

\* path.join(a, b) (posix): the non-empty arguments joined by "/", normalized.
pathJoin(a, b) ==
  IF a = <<>> /\ b = <<>> THEN <<".">>
  ELSE IF a = <<>> THEN pathNormalize(b)
  ELSE IF b = <<>> THEN pathNormalize(a)
  ELSE pathNormalize(a \o <<"/">> \o b)

(***************************************************************************)
(* Classification of a pattern.                                            *)
(***************************************************************************)
\* /^\/?([~\w/.-]+)\/?$/.test(uri): "/" is in the class, so the test passes
\* exactly for the non-empty strings over the class.
regexCheckStaticURL(uri) ==
  Len(uri) > 0 /\ \A i \in 1..Len(uri) : uri[i] \in StaticChars

\* /^\/?([:~\w/.-]+)\/?$/.test(uri)
regexCheckNamedPath(uri) ==
  Len(uri) > 0 /\ \A i \in 1..Len(uri) : uri[i] \in NamedChars

\* The loop of createNamedRouteSearchKey over the tokens.
RECURSIVE searchKeyLoop(_, _, _)
searchKeyLoop(tokens, params, key) ==
  IF tokens = <<>> THEN [params |-> params, key |-> key]
  ELSE LET token == Head(tokens)
       IN  IF Len(token) > 0 /\ token[1] = ":"
           THEN searchKeyLoop(Tail(tokens), Append(params, Tail(token)),
                              key \o <<"/", Group>>)
           ELSE searchKeyLoop(Tail(tokens), params, key \o <<"/">> \o token)

createNamedRouteSearchKey(tokens) ==
  IF tokens = <<>> THEN [params |-> <<>>, key |-> <<>>]
  ELSE LET r == searchKeyLoop(tokens, <<>>, <<>>)
       IN  [params |-> r.params, key |-> Tail(r.key)]

(***************************************************************************)
(* The request's parameter bag: a set of name/value bindings, one per      *)
(* name.                                                                   *)
(***************************************************************************)
setParam(bag, name, value) ==
  {b \in bag : b.name # name} \cup {[name |-> name, value |-> value]}

(***************************************************************************)
(* The two matching strategies.                                            *)
(***************************************************************************)
\* The loop of fastPathMatch, from the last segment down to the first
\* (i is the 1-based position): a :name segment of the key is written to the
\* bag when it is passed, a literal mismatch breaks out of the loop.
RECURSIVE fastPathLoop(_, _, _, _)
fastPathLoop(pathNames, keyNames, i, bag) ==
  IF i < 1 THEN [ok |-> TRUE, params |-> bag]
  ELSE LET isName == Len(keyNames[i]) > 0 /\ keyNames[i][1] = ":"
       IN  IF pathNames[i] # keyNames[i] /\ ~isName
           THEN [ok |-> FALSE, params |-> bag]
           ELSE IF isName
           THEN fastPathLoop(pathNames, keyNames, i - 1,
                             setParam(bag, Tail(keyNames[i]), pathNames[i]))
           ELSE fastPathLoop(pathNames, keyNames, i - 1, bag)

\* fastPathMatch(pathNames, keyNames, request): ok is the returned boolean,
\* params is request.params after the call.
fastPathMatch(pathNames, keyNames, bag) ==
  IF Len(keyNames) = Len(pathNames)
  THEN fastPathLoop(pathNames, keyNames, Len(pathNames), bag)
  ELSE [ok |-> FALSE, params |-> bag]

\* The length of the longest run of [\w-.~] characters of uri from position u.
RECURSIVE runLength(_, _)
runLength(uri, u) ==
  IF u > Len(uri) \/ uri[u] \notin ParamChars THEN 0
  ELSE 1 + runLength(uri, u + 1)

\* A backtracking match of key from its atom k against uri from position u,
\* as RegExp evaluates the keys createNamedRouteSearchKey builds from the
\* patterns of this model: a capturing group is greedy, "." is any character,
\* "$" is the end of the input and every other character of a key stands for
\* itself.
RECURSIVE matchHere(_, _, _, _)
matchHere(key, k, uri, u) ==
  IF k > Len(key) THEN [ok |-> TRUE, groups |-> <<>>]
  ELSE LET atom == key[k]
           fail == [ok |-> FALSE, groups |-> <<>>]
       IN  IF atom = Group
           THEN LET max == runLength(uri, u)
                    fits(n) == matchHere(key, k + 1, uri, u + n).ok
                IN  IF \E n \in 1..max : fits(n)
                    THEN LET n == CHOOSE n \in 1..max :
                                    fits(n) /\ \A m \in (n + 1)..max : ~fits(m)
                             rest == matchHere(key, k + 1, uri, u + n)
                         IN  [ok |-> TRUE,
                              groups |-> <<SubSeq(uri, u, u + n - 1)>> \o rest.groups]
                    ELSE fail
           ELSE IF atom = "$"
           THEN IF u = Len(uri) + 1 THEN matchHere(key, k + 1, uri, u) ELSE fail
           ELSE IF u > Len(uri) THEN fail
           ELSE IF atom = "." \/ atom = uri[u]
           THEN matchHere(key, k + 1, uri, u + 1)
           ELSE fail

\* RegExp(key).exec(uri): the match at the leftmost position that has one.
regExpExec(key, uri) ==
  LET starts == {u \in 1..(Len(uri) + 1) : matchHere(key, 1, uri, u).ok}
  IN  IF starts = {} THEN [ok |-> FALSE, groups |-> <<>>]
      ELSE matchHere(key, 1, uri,
                     CHOOSE u \in starts : \A v \in starts : u <= v)

\* The loop over pk.params.entries(): params[i] is bound to match[i + 1].
RECURSIVE bindGroups(_, _, _, _)
bindGroups(params, groups, i, bag) ==
  IF i > Len(params) THEN bag
  ELSE bindGroups(params, groups, i + 1,
                  setParam(bag, params[i],
                           IF i <= Len(groups) THEN groups[i] ELSE <<>>))

\* attachPathParamsToRequestIfExists(uri, pk, request)
attachPathParamsToRequestIfExists(uri, pk, bag) ==
  IF pk.key = <<>> THEN [ok |-> FALSE, params |-> bag]
  ELSE LET match == regExpExec(pk.key, uri)
       IN  IF match.ok
           THEN [ok |-> TRUE, params |-> bindGroups(pk.params, match.groups, 1, bag)]
           ELSE [ok |-> FALSE, params |-> bag]

(***************************************************************************)
(* The route tables.                                                       *)
(*                                                                         *)
(* httpMethodMap[r][i] is the RouteMap of router r for map index i.  Its   *)
(* staticRouteMap is the sequence of its properties in insertion order,    *)
(* each a key k and a reference v to a StaticRouteCallback object; its     *)
(* namedRoutePartitionMap is the set of its properties, each a bucket and  *)
(* a reference v to an array of route entries.  The objects themselves     *)
(* live in the heap, in the order they were created, so that two maps can  *)
(* hold the same object: heap[v].callbacks is the chain of the             *)
(* StaticRouteCallback object v, heap[v].entries the content of array v.   *)
(* calls counts the configuration calls made; last is the record of the    *)
(* last call and of what it did.                                           *)
(***************************************************************************)
VARIABLES httpMethodMap, heap, calls, last

vars == <<httpMethodMap, heap, calls, last>>

\* The routers of the model.
Routers == {"app", "sub"}

\* The enumeration HttpMapIndex of types.ts, as the router uses it: index 0 is
\* the middleware table.
HttpMapIndex ==
  [MIDDLEWARE |-> 0, GET |-> 1, POST |-> 2, PUT |-> 3, PATCH |-> 4, DELETE |-> 5]

MapIndexes == {HttpMapIndex.MIDDLEWARE, HttpMapIndex.GET, HttpMapIndex.POST,
               HttpMapIndex.PUT, HttpMapIndex.PATCH, HttpMapIndex.DELETE}

TopLevelMiddleware == <<"/">>

\* The tables and heaps as one value, passed through the steps of a call.
Store == [maps |-> httpMethodMap, heap |-> heap]

\* A new StaticRouteCallback object and a new array.
staticObject(callbacks) == [callbacks |-> callbacks]

arrayObject(entries) == [entries |-> entries]

hasKey(map, k) == \E i \in 1..Len(map) : map[i].k = k

refOf(map, k) == map[CHOOSE i \in 1..Len(map) : map[i].k = k].v

\* map[k] = v on an object: a new property is added last, an existing one
\* keeps its place.
setKey(map, k, v) ==
  IF hasKey(map, k)
  THEN [i \in 1..Len(map) |-> IF map[i].k = k THEN [k |-> k, v |-> v] ELSE map[i]]
  ELSE Append(map, [k |-> k, v |-> v])

\* Object.assign(target, source) on two static maps.
RECURSIVE objectAssign(_, _)
objectAssign(target, source) ==
  IF source = <<>> THEN target
  ELSE objectAssign(setKey(target, Head(source).k, Head(source).v), Tail(source))

hasBucket(pmap, b) == \E p \in pmap : p.bucket = b

arrayOf(pmap, b) == (CHOOSE p \in pmap : p.bucket = b).v

setBucket(pmap, b, v) ==
  {p \in pmap : p.bucket # b} \cup {[bucket |-> b, v |-> v]}

\* The callbacks chain of static key k of router r and map i in store st,
\* the empty chain when the key is absent.
chainOf(st, r, i, k) ==
  IF hasKey(st.maps[r][i].staticRouteMap, k)
  THEN st.heap[refOf(st.maps[r][i].staticRouteMap, k)].callbacks
  ELSE <<>>

\* The entries of bucket b of router r and map i in store st.
entriesOf(st, r, i, b) ==
  IF hasBucket(st.maps[r][i].namedRoutePartitionMap, b)
  THEN st.heap[arrayOf(st.maps[r][i].namedRoutePartitionMap, b)].entries
  ELSE <<>>

\* Mutant: the leading empty token is kept in pathNames.
routeEntry_allTokens(uri, callbacks) ==
  LET tokens == split(uri, "/")
      sk == createNamedRouteSearchKey(tokens)
  IN  [key |-> sk.key, params |-> sk.params, callbacks |-> callbacks,
       pathNames |-> tokens, useRegex |-> ~regexCheckNamedPath(uri)]

\* The RouteEntry computed from a pattern and a chain.
routeEntry(uri, callbacks) ==
  LET tokens == split(uri, "/")
      sk == createNamedRouteSearchKey(tokens)
  IN  [key |-> sk.key, params |-> sk.params, callbacks |-> callbacks,
       pathNames |-> Tail(tokens), useRegex |-> ~regexCheckNamedPath(uri)]

\* buildRequestMap(mapIndex, uri, callbacks) on router r.
buildRequestMap(st, r, mapIndex, uri, callbacks) ==
  LET routeMap == st.maps[r][mapIndex]
  IN  IF regexCheckStaticURL(uri)
      THEN IF ~hasKey(routeMap.staticRouteMap, uri)
           THEN [st EXCEPT
                   !.heap = Append(@, staticObject(callbacks)),
                   !.maps[r][mapIndex].staticRouteMap =
                       Append(@, [k |-> uri, v |-> Len(st.heap) + 1])]
           ELSE [st EXCEPT
                   !.heap[refOf(routeMap.staticRouteMap, uri)].callbacks =
                       @ \o callbacks]
      ELSE LET bucket == Len(split(uri, "/")) - 1
               entry == routeEntry(uri, callbacks)
           IN  IF ~hasBucket(routeMap.namedRoutePartitionMap, bucket)
               THEN [st EXCEPT
                       !.heap = Append(@, arrayObject(<<entry>>)),
                       !.maps[r][mapIndex].namedRoutePartitionMap =
                           setBucket(@, bucket, Len(st.heap) + 1)]
               ELSE [st EXCEPT
                       !.heap[arrayOf(routeMap.namedRoutePartitionMap, bucket)].entries =
                           Append(@, entry)]

\* all(uri, ...fn) past its argument check: get, post, put, patch, delete.
registerAll(st, r, uri, fn) ==
  LET s1 == buildRequestMap(st, r, HttpMapIndex.GET, uri, fn)
      s2 == buildRequestMap(s1, r, HttpMapIndex.POST, uri, fn)
      s3 == buildRequestMap(s2, r, HttpMapIndex.PUT, uri, fn)
      s4 == buildRequestMap(s3, r, HttpMapIndex.PATCH, uri, fn)
  IN  buildRequestMap(s4, r, HttpMapIndex.DELETE, uri, fn)

(***************************************************************************)
(* Mounting without a prefix: mergeRouterMaps.                             *)
(***************************************************************************)
\* Mutant: the source's chain is put in front of the target's.
RECURSIVE mergeStaticLoop_prepend(_, _, _, _, _)
mergeStaticLoop_prepend(st, target, source, i, entries) ==
  IF entries = <<>> THEN [st |-> st, threw |-> FALSE]
  ELSE LET k == Head(entries).k
       IN  IF ~hasKey(st.maps[target][i].staticRouteMap, k)
           THEN [st |-> st, threw |-> TRUE]
           ELSE LET tv == refOf(st.maps[target][i].staticRouteMap, k)
                    sv == refOf(st.maps[source][i].staticRouteMap, k)
                IN  mergeStaticLoop_prepend(
                      [st EXCEPT !.heap[tv].callbacks = st.heap[sv].callbacks \o @],
                      target, source, i, Tail(entries))

\* The loop over Object.entries(routeMap[i].staticRouteMap) of the else
\* branch: the chain of each source key is concatenated onto the target's
\* object for that key.  A key the target does not hold makes the read of
\* its callbacks raise a TypeError, which ends the whole call.
RECURSIVE mergeStaticLoop(_, _, _, _, _)
mergeStaticLoop(st, target, source, i, entries) ==
  IF entries = <<>> THEN [st |-> st, threw |-> FALSE]
  ELSE LET k == Head(entries).k
       IN  IF ~hasKey(st.maps[target][i].staticRouteMap, k)
           THEN [st |-> st, threw |-> TRUE]
           ELSE LET tv == refOf(st.maps[target][i].staticRouteMap, k)
                    sv == refOf(st.maps[source][i].staticRouteMap, k)
                IN  mergeStaticLoop(
                      [st EXCEPT !.heap[tv].callbacks = @ \o st.heap[sv].callbacks],
                      target, source, i, Tail(entries))

\* The loop over Object.entries(routeMap[i].namedRoutePartitionMap) of the
\* else branch, in ascending bucket order: a bucket the target holds gets a
\* new array, the target's entries followed by the source's.
RECURSIVE mergeNamedLoop(_, _, _, _, _)
mergeNamedLoop(st, target, source, i, buckets) ==
  IF buckets = {} THEN st
  ELSE LET k == CHOOSE b \in buckets : \A c \in buckets : b <= c
           tmap == st.maps[target][i].namedRoutePartitionMap
           smap == st.maps[source][i].namedRoutePartitionMap
           next ==
             IF hasBucket(tmap, k)
             THEN [st EXCEPT
                     !.heap = Append(@, arrayObject(
                                          st.heap[arrayOf(tmap, k)].entries
                                          \o st.heap[arrayOf(smap, k)].entries)),
                     !.maps[target][i].namedRoutePartitionMap =
                         setBucket(@, k, Len(st.heap) + 1)]
             ELSE st
       IN  mergeNamedLoop(next, target, source, i, buckets \ {k})

\* The body of the loop of mergeRouterMaps from map index i on.
RECURSIVE mergeFrom(_, _, _, _)
mergeFrom(st, target, source, i) ==
  IF i \notin MapIndexes THEN [st |-> st, threw |-> FALSE]
  ELSE LET sStatic == st.maps[source][i].staticRouteMap
           afterStatic ==
             IF st.maps[target][i].staticRouteMap = <<>>
             THEN [st |-> [st EXCEPT !.maps[target][i].staticRouteMap =
                                         objectAssign(@, sStatic)],
                   threw |-> FALSE]
             ELSE mergeStaticLoop(st, target, source, i, sStatic)
           s1 == afterStatic.st
           sNamed == s1.maps[source][i].namedRoutePartitionMap
           s2 == IF s1.maps[target][i].namedRoutePartitionMap = {}
                 THEN [s1 EXCEPT !.maps[target][i].namedRoutePartitionMap = sNamed]
                 ELSE mergeNamedLoop(s1, target, source, i,
                                     {p.bucket : p \in sNamed})
       IN  IF afterStatic.threw THEN afterStatic
           ELSE mergeFrom(s2, target, source, i + 1)

\* target.mergeRouterMaps(source.httpMethodMap)
mergeRouterMaps(st, target, source) ==
  mergeFrom(st, target, source, HttpMapIndex.MIDDLEWARE)

(***************************************************************************)
(* Mounting on a path: the second branch of use().                         *)
(***************************************************************************)
\* mapOfStaticRouteCallback: the source's static properties under their
\* rewritten keys (the keys of map index 0 are kept as they are).
RECURSIVE prefixStatic(_, _, _, _)
prefixStatic(uri, mapIndex, entries, acc) ==
  IF entries = <<>> THEN acc
  ELSE LET k == Head(entries).k
           key == IF mapIndex = 0 THEN k
                  ELSE stripTrailingSlash(pathJoin(uri, k))
       IN  prefixStatic(uri, mapIndex, Tail(entries),
                        setKey(acc, key, Head(entries).v))

\* Mutant: the rewritten entry stays in the bucket of the source entry.
prefixEntry_bucketKept(uri, e) ==
  LET keySrc == join(e.pathNames, "/")
      keyDest == stripTrailingSlash(pathJoin(uri, keySrc))
  IN  [bucket |-> Len(e.pathNames),
       entry |-> routeEntry(keyDest, e.callbacks)]

\* The rewritten entry of a source entry and the bucket it goes to.
prefixEntry(uri, e) ==
  LET keySrc == join(e.pathNames, "/")
      keyDest == stripTrailingSlash(pathJoin(uri, keySrc))
  IN  [bucket |-> Len(split(keyDest, "/")) - 1,
       entry |-> routeEntry(keyDest, e.callbacks)]

\* The inner loop over the entries of one source bucket: each rewritten entry
\* is pushed onto the array mapOfNamedRouteCallback holds for its bucket.
RECURSIVE prefixBucket(_, _, _)
prefixBucket(uri, entries, acc) ==
  IF entries = <<>> THEN acc
  ELSE LET pe == prefixEntry(uri, Head(entries))
           acc2 ==
             IF \E m \in acc : m.bucket = pe.bucket
             THEN {IF m.bucket = pe.bucket
                   THEN [m EXCEPT !.entries = Append(@, pe.entry)]
                   ELSE m : m \in acc}
             ELSE acc \cup {[bucket |-> pe.bucket, entries |-> <<pe.entry>>]}
       IN  prefixBucket(uri, Tail(entries), acc2)

\* mapOfNamedRouteCallback after the loop over the source's buckets, taken in
\* ascending order.
RECURSIVE prefixNamed(_, _, _, _, _, _)
prefixNamed(st, source, mapIndex, uri, buckets, acc) ==
  IF buckets = {} THEN acc
  ELSE LET k == CHOOSE b \in buckets : \A c \in buckets : b <= c
       IN  prefixNamed(st, source, mapIndex, uri, buckets \ {k},
                       prefixBucket(uri, entriesOf(st, source, mapIndex, k), acc))

\* Object.assign(target's namedRoutePartitionMap, mapOfNamedRouteCallback):
\* every bucket of mapOf becomes the target's array for that bucket.
RECURSIVE assignNamed(_, _, _, _)
assignNamed(st, target, mapIndex, mapOf) ==
  IF mapOf = {} THEN st
  ELSE LET m == CHOOSE x \in mapOf : \A y \in mapOf : x.bucket <= y.bucket
       IN  assignNamed(
             [st EXCEPT
                !.heap = Append(@, arrayObject(m.entries)),
                !.maps[target][mapIndex].namedRoutePartitionMap =
                    setBucket(@, m.bucket, Len(st.heap) + 1)],
             target, mapIndex, mapOf \ {m})

\* The body of the loop over the map indexes from mapIndex on.
RECURSIVE mountFrom(_, _, _, _, _)
mountFrom(st, target, uri, source, mapIndex) ==
  IF mapIndex \notin MapIndexes THEN st
  ELSE LET routeMap == st.maps[source][mapIndex]
           mapOfStatic == prefixStatic(uri, mapIndex, routeMap.staticRouteMap, <<>>)
           s1 == [st EXCEPT !.maps[target][mapIndex].staticRouteMap =
                               objectAssign(@, mapOfStatic)]
           mapOfNamed ==
             prefixNamed(s1, source, mapIndex, uri,
                         {p.bucket : p \in routeMap.namedRoutePartitionMap}, {})
       IN  mountFrom(assignNamed(s1, target, mapIndex, mapOfNamed),
                     target, uri, source, mapIndex + 1)

\* target.use(uri, source)
mountOnPath(st, target, uri, source) ==
  mountFrom(st, target, uri, source, HttpMapIndex.MIDDLEWARE)

(***************************************************************************)
(* Handlers.  A handler is caller-supplied code; the router sees only what *)
(* a call of it does: it returns a falsy value, returns a truthy value or  *)
(* raises; before that it may have ended the response itself (w1 ends the  *)
(* response and then raises).  The model fixes that per handler.           *)
(***************************************************************************)
Handlers == {"f1", "f2", "f3", "t1", "x1", "w1"}

Returns(h) ==
  CASE h = "t1" -> "truthy"
    [] h = "x1" -> "throw"
    [] h = "w1" -> "throw"
    [] OTHER -> "falsy"

\* The handler ends the response (its headers are sent) before it returns or
\* raises.
EndsResponse(h) == h = "w1"

\* Some handler call of a log ended the response.
headersSentBy(log) == \E i \in 1..Len(log) : EndsResponse(log[i].h)

\* The loop of callTopLevelMiddlewares over a chain: every handler is called,
\* its return value is dropped; a handler that raises ends the loop.
RECURSIVE callEach(_)
callEach(chain) ==
  IF chain = <<>> THEN [log |-> <<>>, threw |-> FALSE]
  ELSE LET call == [h |-> Head(chain), by |-> "middleware"]
       IN  IF Returns(Head(chain)) = "throw"
           THEN [log |-> <<call>>, threw |-> TRUE]
           ELSE LET rest == callEach(Tail(chain))
                IN  [log |-> <<call>> \o rest.log, threw |-> rest.threw]

\* callTopLevelMiddlewares(ctx) on router r.
callTopLevelMiddlewares(st, r) ==
  callEach(chainOf(st, r, HttpMapIndex.MIDDLEWARE, TopLevelMiddleware))

\* Mutant: the break after response.end() is missing, the loop goes on.
RECURSIVE callChain_noBreak(_)
callChain_noBreak(chain) ==
  IF chain = <<>> THEN [log |-> <<>>, out |-> "done"]
  ELSE LET call == [h |-> Head(chain), by |-> "route"]
           rv == Returns(Head(chain))
           rest == callChain_noBreak(Tail(chain))
       IN  IF rv = "throw" THEN [log |-> <<call>>, out |-> "threw"]
           ELSE [log |-> <<call>> \o rest.log,
                 out |-> IF rv = "truthy" /\ rest.out = "done" THEN "ended"
                         ELSE rest.out]

\* The loop over a route's callback chain: a truthy return value ends the
\* response and breaks out of the loop.
RECURSIVE callChain(_)
callChain(chain) ==
  IF chain = <<>> THEN [log |-> <<>>, out |-> "done"]
  ELSE LET call == [h |-> Head(chain), by |-> "route"]
           rv == Returns(Head(chain))
       IN  IF rv = "throw" THEN [log |-> <<call>>, out |-> "threw"]
           ELSE IF rv = "truthy" THEN [log |-> <<call>>, out |-> "ended"]
           ELSE LET rest == callChain(Tail(chain))
                IN  [log |-> <<call>> \o rest.log, out |-> rest.out]

(***************************************************************************)
(* Dispatch.  The result of a dispatch is what the router did: the path it *)
(* matched on (url), the raw query string it parsed, what it wrote to the  *)
(* response (status, body) and how often it ended it (ends), the handler   *)
(* calls it made in order (log), the request's parameter bag (params), the *)
(* route it selected (sel), the positions of the bucket entries it         *)
(* evaluated (tested), whether the response's headers are sent (sent) and  *)
(* whether an exception left dispatch (raised).                            *)
(***************************************************************************)
NoSelection ==
  [kind |-> "none", key |-> <<>>, bucket |-> 0, index |-> 0, chain |-> <<>>]

NoResult ==
  [url |-> <<>>, query |-> <<>>, status |-> 0, body |-> "", ends |-> 0,
   log |-> <<>>, params |-> {}, sel |-> NoSelection, tested |-> <<>>,
   sent |-> FALSE, raised |-> FALSE]

\* Mutant: the response is ended without the body.
notFound_noBody(res) ==
  [res EXCEPT !.status = 404, !.ends = @ + 1, !.sent = TRUE]

\* response.writeHead(404, ...) and response.end('Route not found').
notFound(res) ==
  [res EXCEPT !.status = 404, !.body = "Route not found", !.ends = @ + 1,
              !.sent = TRUE]

\* The catch block: response.writeHead(404, ...) raises ERR_HTTP_HEADERS_SENT
\* when the headers are already sent, and nothing catches that.
catchBlock(res) ==
  IF res.sent THEN [res EXCEPT !.raised = TRUE] ELSE notFound(res)

\* Mutant: the loop does not stop at the first entry that matches, the last
\* entry that matches is the one found.
RECURSIVE scanBucket_lastMatch(_, _, _, _, _)
scanBucket_lastMatch(entries, i, URL, pathNames, bag) ==
  IF i > Len(entries)
  THEN [found |-> FALSE, index |-> 0, params |-> bag, tested |-> <<>>]
  ELSE LET e == entries[i]
           m == IF ~e.useRegex
                THEN fastPathMatch(pathNames, e.pathNames, bag)
                ELSE attachPathParamsToRequestIfExists(URL, e, bag)
           rest == scanBucket_lastMatch(entries, i + 1, URL, pathNames, m.params)
       IN  IF m.ok /\ ~rest.found
           THEN [found |-> TRUE, index |-> i, params |-> m.params,
                 tested |-> <<i>> \o rest.tested]
           ELSE [rest EXCEPT !.tested = <<i>> \o @]

\* The for loop over the entries of a bucket from position i on: the first
\* entry its strategy matches is found; the bag is the same object for every
\* entry evaluated.
RECURSIVE scanBucket(_, _, _, _, _)
scanBucket(entries, i, URL, pathNames, bag) ==
  IF i > Len(entries)
  THEN [found |-> FALSE, index |-> 0, params |-> bag, tested |-> <<>>]
  ELSE LET e == entries[i]
           m == IF ~e.useRegex
                THEN fastPathMatch(pathNames, e.pathNames, bag)
                ELSE attachPathParamsToRequestIfExists(URL, e, bag)
       IN  IF m.ok
           THEN [found |-> TRUE, index |-> i, params |-> m.params, tested |-> <<i>>]
           ELSE LET rest == scanBucket(entries, i + 1, URL, pathNames, m.params)
                IN  [rest EXCEPT !.tested = <<i>> \o @]

\* Mutant: the route's chain is run before the top level middlewares.
runMatched_routeFirst(st, r, res, chain) ==
  LET mw == callTopLevelMiddlewares(st, r)
      run == callChain(chain)
      r0 == [res EXCEPT !.log = run.log, !.sent = @ \/ headersSentBy(run.log)]
      r1 == [r0 EXCEPT !.log = @ \o mw.log, !.sent = @ \/ headersSentBy(mw.log)]
  IN  IF run.out = "threw" THEN catchBlock(r0)
      ELSE IF mw.threw THEN catchBlock(r1)
      ELSE IF run.out = "ended" THEN [r1 EXCEPT !.ends = @ + 1, !.sent = TRUE]
      ELSE r1

\* The part common to both kinds of match: the top level middlewares, then
\* the selected chain; an exception of either is caught and answered 404.
runMatched(st, r, res, chain) ==
  LET mw == callTopLevelMiddlewares(st, r)
      run == callChain(chain)
      r0 == [res EXCEPT !.log = mw.log, !.sent = @ \/ headersSentBy(mw.log)]
      r1 == [r0 EXCEPT !.log = @ \o run.log, !.sent = @ \/ headersSentBy(run.log)]
  IN  IF mw.threw THEN catchBlock(r0)
      ELSE IF chain = <<>> THEN r0
      ELSE IF run.out = "threw" THEN catchBlock(r1)
      ELSE IF run.out = "ended" THEN [r1 EXCEPT !.ends = @ + 1, !.sent = TRUE]
      ELSE r1

\* Mutant: the trailing slash is kept.
stripUrl_keepSlash(url) == split(url, "?")[1]

\* The URL strip rules: the part before the first "?", without its trailing
\* slash when it is longer than one character.
stripUrl(url) ==
  LET urlQuery == split(url, "?")
  IN  IF Len(urlQuery[1]) > 1 /\ urlQuery[1][Len(urlQuery[1])] = "/"
      THEN SubSeq(urlQuery[1], 1, Len(urlQuery[1]) - 1)
      ELSE urlQuery[1]

\* Mutant: the partition map is searched first, the static map is used only
\* when no entry of the URL's bucket matches.
isStaticMatch_afterDynamic(st, r, mapIndex, URL) ==
  /\ hasKey(st.maps[r][mapIndex].staticRouteMap, URL)
  /\ ~scanBucket(entriesOf(st, r, mapIndex, Len(Tail(split(URL, "/")))), 1,
                 URL, Tail(split(URL, "/")), {}).found

\* The test routeMap.staticRouteMap[URL] that opens the try block.
isStaticMatch(st, r, mapIndex, URL) ==
  hasKey(st.maps[r][mapIndex].staticRouteMap, URL)

\* processHTTPMethod(mapIndex, request, response) on router r, request.url
\* being url; throwOnNotFound has its default value, true.
processHTTPMethod(st, r, mapIndex, url) ==
  LET routeMap == st.maps[r][mapIndex]
      urlQuery == split(url, "?")
      query == IF Len(urlQuery) > 1 /\ Len(urlQuery[2]) > 0
               THEN urlQuery[2] ELSE <<>>
      URL == stripUrl(url)
      res == [NoResult EXCEPT !.url = URL, !.query = query]
      pathNames == Tail(split(URL, "/"))
      bucket == Len(pathNames)
      namedRouteParams == entriesOf(st, r, mapIndex, bucket)
      scan == scanBucket(namedRouteParams, 1, URL, pathNames, {})
  IN  IF isStaticMatch(st, r, mapIndex, URL)
      THEN LET chain == chainOf(st, r, mapIndex, URL)
           IN  runMatched(st, r,
                 [res EXCEPT !.sel = [kind |-> "static", key |-> URL, bucket |-> 0,
                                      index |-> 0, chain |-> chain]],
                 chain)
      ELSE IF hasBucket(routeMap.namedRoutePartitionMap, bucket)
      THEN IF namedRouteParams = <<>> THEN res
           ELSE IF scan.found
           THEN LET chain == namedRouteParams[scan.index].callbacks
                IN  runMatched(st, r,
                      [res EXCEPT !.params = scan.params, !.tested = scan.tested,
                                  !.sel = [kind |-> "dynamic", key |-> <<>>,
                                           bucket |-> bucket, index |-> scan.index,
                                           chain |-> chain]],
                      chain)
           ELSE notFound([res EXCEPT !.params = scan.params,
                                     !.tested = scan.tested])
      ELSE notFound(res)

\* Mutant: the default case falls into the GET case.
methodMapIndex_defaultGet(method) ==
  CASE method \in {"POST", "post"} -> HttpMapIndex.POST
    [] method \in {"PUT", "put"} -> HttpMapIndex.PUT
    [] method \in {"PATCH", "patch"} -> HttpMapIndex.PATCH
    [] method \in {"DELETE", "delete"} -> HttpMapIndex.DELETE
    [] OTHER -> HttpMapIndex.GET

\* The cases of the switch of dispatch: the map index of a method string,
\* -1 for the default case.
methodMapIndex(method) ==
  CASE method \in {"GET", "get"} -> HttpMapIndex.GET
    [] method \in {"POST", "post"} -> HttpMapIndex.POST
    [] method \in {"PUT", "put"} -> HttpMapIndex.PUT
    [] method \in {"PATCH", "patch"} -> HttpMapIndex.PATCH
    [] method \in {"DELETE", "delete"} -> HttpMapIndex.DELETE
    [] OTHER -> -1

\* dispatch(incomingMessage, response) on router r.
dispatch(st, r, method, url) ==
  IF methodMapIndex(method) \in MapIndexes
  THEN processHTTPMethod(st, r, methodMapIndex(method), url)
  ELSE [NoResult EXCEPT !.url = url, !.status = 501, !.ends = 1, !.sent = TRUE]

(***************************************************************************)
(* The calls the model makes.                                              *)
(***************************************************************************)
\* The handler lists given to the registration calls.
chainA == <<"f1", "f2">>

chainB == <<"f3", "t1", "f1">>

\* The routes registered with get: /a, /a/, /a/b, /a/:x and /:x/b.
Routes ==
  { [uri |-> <<"/", "a">>, fn |-> chainA],
    [uri |-> <<"/", "a", "/">>, fn |-> chainB],
    [uri |-> <<"/", "a", "/", "b">>, fn |-> chainB],
    [uri |-> <<"/", "a", "/", ":", "x">>, fn |-> chainA],
    [uri |-> <<"/", ":", "x", "/", "b">>, fn |-> chainB] }

\* The route registered with the other verbs, with all and with use: /a/:x.
OtherRoutes == { [uri |-> <<"/", "a", "/", ":", "x">>, fn |-> chainB] }

\* The top level middleware each router registers.
Middlewares == { [router |-> "app", fn |-> chainA], [router |-> "sub", fn |-> chainB] }

\* The mounts: sub into app, without a prefix or on /p.
Mounts == { [target |-> "app", source |-> "sub"] }

Prefixes == { <<"/", "p">> }

\* The router that serves requests.
Served == {"app"}

\* The URLs of the requests: /a, /a/, /a//, /a/b, /a/b/, /a/b?q, /a/b/?q,
\* /c/bb, /c and /p/a.
Urls ==
  { <<"/", "a">>, <<"/", "a", "/">>, <<"/", "a", "/", "/">>,
    <<"/", "a", "/", "b">>, <<"/", "a", "/", "b", "/">>,
    <<"/", "a", "/", "b", "?", "q">>, <<"/", "a", "/", "b", "/", "?", "q">>,
    <<"/", "c", "/", "b", "b">>, <<"/", "c">>, <<"/", "p", "/", "a">> }

\* The requests: a GET of every URL, and requests for /a and /a/b with the
\* other method strings.
Requests ==
  [method : {"GET"}, url : Urls]
    \cup [method : {"get", "POST", "OPTIONS"},
          url : { <<"/", "a">>, <<"/", "a", "/", "b">> }]

\* The record of a call: what was called with which arguments, whether the
\* call raised, and for a dispatch its result.
Call(op, r, source, method, uri, fn, threw, res) ==
  [op |-> op, router |-> r, source |-> source, method |-> method, uri |-> uri,
   fn |-> fn, threw |-> threw, res |-> res]

Commit(st) ==
  /\ httpMethodMap' = st.maps
  /\ heap' = st.heap

Configure ==
  /\ calls < MaxCalls
  /\ calls' = calls + 1

\* Mutant: the argument check is missing.
register_unchecked(op, mapIndex, r, uri, fn) ==
  /\ Configure
  /\ Commit(buildRequestMap(Store, r, mapIndex, uri, fn))
  /\ last' = Call(op, r, "", "", uri, fn, FALSE, NoResult)

\* get, post, put, patch and delete: the argument check, then buildRequestMap
\* on the method's map.
register(op, mapIndex, r, uri, fn) ==
  /\ Configure
  /\ IF fn = <<>>
     THEN /\ Commit(Store)
          /\ last' = Call(op, r, "", "", uri, fn, TRUE, NoResult)
     ELSE /\ Commit(buildRequestMap(Store, r, mapIndex, uri, fn))
          /\ last' = Call(op, r, "", "", uri, fn, FALSE, NoResult)

Get(r, uri, fn) == register("get", HttpMapIndex.GET, r, uri, fn)

Post(r, uri, fn) == register("post", HttpMapIndex.POST, r, uri, fn)

Put(r, uri, fn) == register("put", HttpMapIndex.PUT, r, uri, fn)

Patch(r, uri, fn) == register("patch", HttpMapIndex.PATCH, r, uri, fn)

Delete(r, uri, fn) == register("delete", HttpMapIndex.DELETE, r, uri, fn)

\* all(uri, ...fn)
All(r, uri, fn) ==
  /\ Configure
  /\ IF fn = <<>>
     THEN /\ Commit(Store)
          /\ last' = Call("all", r, "", "", uri, fn, TRUE, NoResult)
     ELSE /\ Commit(registerAll(Store, r, uri, fn))
          /\ last' = Call("all", r, "", "", uri, fn, FALSE, NoResult)

\* use(uri, ...fn): route based middleware.
UsePath(r, uri, fn) ==
  /\ Configure
  /\ IF fn = <<>>
     THEN /\ Commit(Store)
          /\ last' = Call("usePath", r, "", "", uri, fn, TRUE, NoResult)
     ELSE /\ Commit(registerAll(Store, r, uri, fn))
          /\ last' = Call("usePath", r, "", "", uri, fn, FALSE, NoResult)

\* use(...fn): top level middleware; use() with no argument raises.
UseHandlers(r, fn) ==
  /\ Configure
  /\ IF fn = <<>>
     THEN /\ Commit(Store)
          /\ last' = Call("use", r, "", "", <<>>, fn, TRUE, NoResult)
     ELSE /\ Commit(buildRequestMap(Store, r, HttpMapIndex.MIDDLEWARE,
                                    TopLevelMiddleware, fn))
          /\ last' = Call("use", r, "", "", <<>>, fn, FALSE, NoResult)

\* use(router): what mergeRouterMaps wrote before it raised stays written.
UseRouter(target, source) ==
  /\ Configure
  /\ target # source
  /\ LET m == mergeRouterMaps(Store, target, source)
     IN  /\ Commit(m.st)
         /\ last' = Call("useRouter", target, source, "", <<>>, <<>>, m.threw,
                         NoResult)

\* use(uri, router)
UsePathRouter(target, uri, source) ==
  /\ Configure
  /\ target # source
  /\ Commit(mountOnPath(Store, target, uri, source))
  /\ last' = Call("usePathRouter", target, source, "", uri, <<>>, FALSE, NoResult)

\* dispatch(incomingMessage, response) of a request for url with method.
Dispatch(r, method, url) ==
  /\ last' = Call("dispatch", r, "", method, url, <<>>, FALSE,
                  dispatch(Store, r, method, url))
  /\ UNCHANGED <<httpMethodMap, heap, calls>>

\* The state after the routers are constructed: every map is empty.
Init ==
  /\ httpMethodMap =
       [r \in Routers |->
          [i \in MapIndexes |-> [namedRoutePartitionMap |-> {}, staticRouteMap |-> <<>>]]]
  /\ heap = <<>>
  /\ calls = 0
  /\ last = Call("new", "", "", "", <<>>, <<>>, FALSE, NoResult)

Next ==
  \/ \E r \in Routers, a \in Routes : Get(r, a.uri, a.fn)
  \/ \E a \in OtherRoutes : Post("app", a.uri, a.fn)
  \/ \E a \in OtherRoutes : Put("app", a.uri, a.fn)
  \/ \E a \in OtherRoutes : Patch("app", a.uri, a.fn)
  \/ \E a \in OtherRoutes : Delete("app", a.uri, a.fn)
  \/ \E a \in OtherRoutes : All("sub", a.uri, a.fn)
  \/ \E a \in OtherRoutes : UsePath("sub", a.uri, a.fn)
  \/ \E m \in Middlewares : UseHandlers(m.router, m.fn)
  \/ \E m \in Mounts : UseRouter(m.target, m.source)
  \/ \E m \in Mounts, uri \in Prefixes : UsePathRouter(m.target, uri, m.source)
  \/ \E r \in Served, q \in Requests : Dispatch(r, q.method, q.url)

Spec == Init /\ [][Next]_vars

(***************************************************************************)
(* A second set of calls, for the edges of the API: registrations without  *)
(* a handler, handlers that raise, a regex pattern, mounts on a prefix     *)
(* that holds a :name segment and mounts into a bucket the target already  *)
(* uses.                                                                   *)
(***************************************************************************)
\* The routes registered with get: on app /a and /b with handlers that raise
\* and /p/:y; on sub /a, /:x and the regex pattern /:x/b$.
EdgeRoutes ==
  { [router |-> "app", uri |-> <<"/", "a">>, fn |-> <<"f1", "x1", "f2">>],
    [router |-> "app", uri |-> <<"/", "b">>, fn |-> <<"w1", "f2">>],
    [router |-> "app", uri |-> <<"/", "p", "/", ":", "y">>, fn |-> chainA],
    [router |-> "sub", uri |-> <<"/", "a">>, fn |-> chainA],
    [router |-> "sub", uri |-> <<"/", ":", "x">>, fn |-> chainB],
    [router |-> "sub", uri |-> <<"/", ":", "x", "/", "b", "$">>, fn |-> chainB] }

\* The registration made without a handler, with every verb.
NoHandler == [router |-> "app", uri |-> <<"/", "a">>, fn |-> <<>>]

\* use(...fn) on app: a middleware chain whose second handler raises, and
\* use() without an argument.
EdgeMiddlewares == { <<"f3", "x1">>, <<>> }

EdgePrefixes == { <<"/", "p">>, <<"/", ":", "i", "d">> }

EdgeUrls ==
  { <<"/", "a">>, <<"/", "b">>, <<"/", "z">>, <<"/", "p", "/", "z">>,
    <<"/", "z", "/", "b">>, <<"/", "p", "/", "z", "/", "b">>,
    <<"/", ":", "i", "d", "/", "a">>, <<"/", "z", "/", "a">> }

EdgeNext ==
  \/ \E a \in EdgeRoutes \cup {NoHandler} : Get(a.router, a.uri, a.fn)
  \/ Post(NoHandler.router, NoHandler.uri, NoHandler.fn)
  \/ Put(NoHandler.router, NoHandler.uri, NoHandler.fn)
  \/ Patch(NoHandler.router, NoHandler.uri, NoHandler.fn)
  \/ Delete(NoHandler.router, NoHandler.uri, NoHandler.fn)
  \/ All(NoHandler.router, NoHandler.uri, NoHandler.fn)
  \/ UsePath(NoHandler.router, NoHandler.uri, NoHandler.fn)
  \/ \E fn \in EdgeMiddlewares : UseHandlers("app", fn)
  \/ \E m \in Mounts : UseRouter(m.target, m.source)
  \/ \E m \in Mounts, uri \in EdgePrefixes : UsePathRouter(m.target, uri, m.source)
  \/ \E r \in Served, url \in EdgeUrls : Dispatch(r, "GET", url)

EdgeSpec == Init /\ [][EdgeNext]_vars

(***************************************************************************)
(* Properties.                                                             *)
(***************************************************************************)
\* The last call was a dispatch of a request with a supported method.
Dispatched ==
  last.op = "dispatch" /\ methodMapIndex(last.method) \in MapIndexes

\* The tables the last dispatch read.
dispatchedStatic ==
  httpMethodMap[last.router][methodMapIndex(last.method)].staticRouteMap

dispatchedNamed ==
  httpMethodMap[last.router][methodMapIndex(last.method)].namedRoutePartitionMap

\* The handlers the last dispatch called from the route's chain, in order.
routeCalls == SelectSeq(last.res.log, LAMBDA c : c.by = "route")

middlewareCalls == SelectSeq(last.res.log, LAMBDA c : c.by = "middleware")

handlersOf(log) == [i \in 1..Len(log) |-> log[i].h]

pathAB == <<"/", "a", "/", "b">>

namesAX == << <<"a">>, <<":", "x">> >>

\* C1 (as claimed): for every static pattern p registered under method M,
\* dispatching an M request whose path is p, with or without a trailing
\* slash, selects p's static entry, runs the chain registered for p and
\* evaluates no entry of the partition map.
C1_StaticPathDispatch ==
  Dispatched =>
    \A j \in 1..Len(dispatchedStatic) :
      LET p == dispatchedStatic[j].k
      IN  ( /\ regexCheckStaticURL(p)
            /\ \/ last.uri = p
               \/ last.uri = p \o <<"/">>
               \/ last.uri \o <<"/">> = p )
          => /\ last.res.sel.kind = "static"
             /\ last.res.sel.chain = heap[dispatchedStatic[j].v].callbacks
             /\ last.res.tested = <<>>

\* /a/:x was registered before /a/b on the dispatched method: the bucket array
\* that /a/:x opened is an older object than the static object of /a/b.
RegisteredAXThenAB ==
  /\ hasKey(dispatchedStatic, pathAB)
  /\ hasBucket(dispatchedNamed, 2)
  /\ heap[arrayOf(dispatchedNamed, 2)].entries[1].pathNames = namesAX
  /\ arrayOf(dispatchedNamed, 2) < refOf(dispatchedStatic, pathAB)

\* C2 (as claimed): with /a/:x and /a/b registered in that order under one
\* method, a dispatch of that method for /a/b selects the /a/:x entry,
\* captures x = "b" and runs its chain.
C2_DynamicFirst ==
  (Dispatched /\ last.uri = pathAB /\ RegisteredAXThenAB) =>
    /\ last.res.sel.kind = "dynamic"
    /\ last.res.sel.index = 1
    /\ last.res.sel.chain = heap[arrayOf(dispatchedNamed, 2)].entries[1].callbacks
    /\ last.res.params = {[name |-> <<"x">>, value |-> <<"b">>]}

\* C2 (amended): with /a/:x and /a/b registered in that order under one
\* method, a dispatch of that method for /a/b selects the static entry /a/b
\* and runs the chain of the /a/b registration; no entry of the partition map
\* is evaluated and no parameter is captured.
C2_StaticWins ==
  (Dispatched /\ last.uri = pathAB /\ RegisteredAXThenAB) =>
    /\ last.res.sel.kind = "static"
    /\ last.res.sel.key = pathAB
    /\ last.res.sel.chain = heap[refOf(dispatchedStatic, pathAB)].callbacks
    /\ last.res.tested = <<>>
    /\ last.res.params = {}

C2_Witness ==
  /\ Dispatched /\ last.uri = pathAB /\ RegisteredAXThenAB
  /\ last.res.sel.kind = "static"
  /\ heap[arrayOf(dispatchedNamed, 2)].entries[1].callbacks = chainA
  /\ heap[refOf(dispatchedStatic, pathAB)].callbacks = chainB

\* Some handler the last dispatch called raised.
Raised == \E i \in 1..Len(last.res.log) : Returns(last.res.log[i].h) = "throw"

\* C3: in a dispatch that matched a route, a handler of the matched chain
\* that returns a truthy value is the last handler of the chain to be called
\* and the response is ended; when every handler of the chain returns a falsy
\* value (and no handler called before them raised) the whole chain is called
\* and the dispatcher does not end the response.
C3_TruthyStopsChain ==
  (Dispatched /\ last.res.sel.kind # "none") =>
    LET chain == last.res.sel.chain
        ran == handlersOf(routeCalls)
    IN  /\ Len(ran) <= Len(chain)
        /\ \A i \in 1..Len(ran) :
             /\ ran[i] = chain[i]
             /\ Returns(ran[i]) = "truthy" => (Len(ran) = i /\ last.res.ends = 1)
        /\ ( ~Raised /\ \A i \in 1..Len(chain) : Returns(chain[i]) = "falsy" )
           => (ran = chain /\ last.res.ends = 0 /\ last.res.status = 0)

\* A matched dispatch whose chain's second handler returned a truthy value and
\* has a third handler.
C3_Witness ==
  /\ Dispatched /\ last.res.sel.kind = "dynamic"
  /\ last.res.sel.chain = chainB
  /\ handlersOf(routeCalls) = <<"f3", "t1">>
  /\ last.res.ends = 1

\* C4: in a dispatch that matches a route (and in which no handler raises)
\* the handlers of the router's top level middleware chain are called once
\* each, in the order of the chain, before the first handler of the matched
\* chain; the matched chain's handlers follow in their order.  A dispatch
\* with no match calls no handler.
C4_MiddlewareBeforeRoute ==
  last.op = "dispatch" =>
    LET mw == chainOf(Store, last.router, HttpMapIndex.MIDDLEWARE, TopLevelMiddleware)
        chain == last.res.sel.chain
        log == last.res.log
    IN  IF last.res.sel.kind = "none" THEN log = <<>>
        ELSE ~Raised =>
               /\ Len(mw) <= Len(log) /\ Len(log) <= Len(mw) + Len(chain)
               /\ Len(log) > Len(mw)
               /\ \A i \in 1..Len(mw) : log[i] = [h |-> mw[i], by |-> "middleware"]
               /\ \A i \in (Len(mw) + 1)..Len(log) :
                    log[i] = [h |-> chain[i - Len(mw)], by |-> "route"]

\* A matched dispatch on a router with two top level middlewares.
C4_Witness ==
  /\ Dispatched /\ last.res.sel.kind # "none"
  /\ handlersOf(middlewareCalls) = chainA
  /\ Len(routeCalls) > 0

\* The matching relation of a route entry and a normalized path, stated on
\* its own: positionally for a named entry, by the regular expression for a
\* regex entry.
entryMatches(e, URL) ==
  LET segs == Tail(split(URL, "/"))
  IN  IF e.useRegex THEN e.key # <<>> /\ regExpExec(e.key, URL).ok
      ELSE /\ Len(e.pathNames) = Len(segs)
           /\ \A i \in 1..Len(segs) :
                \/ e.pathNames[i] = segs[i]
                \/ (Len(e.pathNames[i]) > 0 /\ e.pathNames[i][1] = ":")

\* The entries of the bucket of the path the last dispatch looked up.
dispatchedBucket == Len(Tail(split(last.res.url, "/")))

dispatchedEntries ==
  IF hasBucket(dispatchedNamed, dispatchedBucket)
  THEN heap[arrayOf(dispatchedNamed, dispatchedBucket)].entries
  ELSE <<>>

\* No static key and no entry of the path's bucket matches the path of the
\* last dispatch.
NothingMatches ==
  /\ \A j \in 1..Len(dispatchedStatic) : dispatchedStatic[j].k # last.res.url
  /\ \A j \in 1..Len(dispatchedEntries) :
       ~entryMatches(dispatchedEntries[j], last.res.url)

\* C5: a request with a supported method whose normalized path matches no
\* static key and no entry of its bucket (bucket absent, or present without a
\* matching entry) is answered 404 "Route not found", the response is ended
\* once and no handler is called.
C5_NotFound ==
  (Dispatched /\ NothingMatches) =>
    /\ last.res.status = 404
    /\ last.res.body = "Route not found"
    /\ last.res.ends = 1
    /\ last.res.log = <<>>
    /\ last.res.sel.kind = "none"

\* A miss in a bucket that is present and holds two entries.
C5_Witness ==
  /\ Dispatched /\ NothingMatches
  /\ Len(dispatchedEntries) = 2
  /\ last.res.tested = <<1, 2>>
  /\ last.res.status = 404

\* What a request with an unsupported method gets.
NotImplemented ==
  /\ last.res.status = 501
  /\ last.res.ends = 1
  /\ last.res.log = <<>>

\* C6 (as claimed): a request whose method is outside GET, POST, PUT, PATCH,
\* DELETE is answered 501, the response is ended and no handler is called.
C6_OutsideUpperCaseVerbs ==
  ( last.op = "dispatch"
    /\ last.method \notin {"GET", "POST", "PUT", "PATCH", "DELETE"} )
  => NotImplemented

\* C6 (amended): a request whose method string is none of GET, POST, PUT,
\* PATCH, DELETE and none of their lower-case spellings get, post, put, patch,
\* delete is answered 501, the response is ended and no handler is called.
C6_UnsupportedMethod ==
  ( last.op = "dispatch"
    /\ last.method \notin {"GET", "POST", "PUT", "PATCH", "DELETE",
                           "get", "post", "put", "patch", "delete"} )
  => NotImplemented

\* An OPTIONS request for a path that is registered under GET, on a router
\* that has top level middleware.
C6_Witness ==
  /\ last.op = "dispatch" /\ last.method = "OPTIONS"
  /\ hasKey(httpMethodMap[last.router][HttpMapIndex.GET].staticRouteMap, last.uri)
  /\ chainOf(Store, last.router, HttpMapIndex.MIDDLEWARE, TopLevelMiddleware) # <<>>
  /\ NotImplemented

\* What the claims compare of two dispatches: the route selected, the handler
\* calls made and the parameters captured.
outcome(res) == [sel |-> res.sel, log |-> res.log, params |-> res.params]

\* The last request's URL is u followed by "/", by "?" and a query string, or
\* by "/?" and a query string, for the path u made of its first n characters.
NormalizesTo(n) ==
  LET v == last.uri
      u == SubSeq(v, 1, n)
      rest == SubSeq(v, n + 1, Len(v))
  IN  /\ u # <<"/">>
      /\ \A i \in 1..n : u[i] # "?"
      /\ \/ rest = <<"/">>
         \/ rest[1] = "?"
         \/ (Len(rest) >= 2 /\ rest[1] = "/" /\ rest[2] = "?")

\* The outcome of the last dispatch is the outcome a dispatch of the first n
\* characters of its URL has on the same tables.
SameAsDispatchOf(n) ==
  outcome(last.res)
    = outcome(dispatch(Store, last.router, last.method, SubSeq(last.uri, 1, n)))

\* C7 (as claimed): for every path u other than "/" and every query string q,
\* a dispatch of u/?q, u?q or u/ selects the same entry, runs the same chain
\* and captures the same parameters as a dispatch of u.
C7_NormalizationTransparent ==
  last.op = "dispatch" =>
    \A n \in 1..(Len(last.uri) - 1) : NormalizesTo(n) => SameAsDispatchOf(n)

\* C7 (amended): for every non-empty path u and every query string q, a
\* dispatch of u?q selects the same entry, runs the same chain and captures
\* the same parameters as a dispatch of u; when u does not end with "/", so
\* do the dispatches of u/ and of u/?q.
C7_NormalizationOfSlashFreePaths ==
  last.op = "dispatch" =>
    \A n \in 1..(Len(last.uri) - 1) :
      ( /\ NormalizesTo(n)
        /\ last.uri[n] # "/" \/ last.uri[n + 1] = "?" )
      => SameAsDispatchOf(n)

\* A dispatch of /a/b/?q that selected /a/:x and captured x = "b".
C7_Witness ==
  /\ Dispatched
  /\ last.uri = <<"/", "a", "/", "b", "/", "?", "q">>
  /\ NormalizesTo(4) /\ SameAsDispatchOf(4)
  /\ last.res.sel.kind = "dynamic"
  /\ last.res.params = {[name |-> <<"x">>, value |-> <<"b">>]}

\* C8 (as claimed): for every entry made of literal and :name segments and
\* every request path of the entry's bucket, fastPathMatch over pathNames and
\* attachPathParamsToRequestIfExists over the entry's key give the same
\* verdict and, on a match, the same parameter bag.
C8_StrategiesAgree ==
  Dispatched =>
    \A j \in 1..Len(dispatchedEntries) :
      LET e == dispatchedEntries[j]
          positional == fastPathMatch(Tail(split(last.res.url, "/")), e.pathNames, {})
          regex == attachPathParamsToRequestIfExists(last.res.url, e, {})
      IN  ~e.useRegex =>
            /\ positional.ok = regex.ok
            /\ positional.ok => positional.params = regex.params

\* The name of map index i as a request method.
methodOf(i) ==
  CASE i = HttpMapIndex.GET -> "GET"
    [] i = HttpMapIndex.POST -> "POST"
    [] i = HttpMapIndex.PUT -> "PUT"
    [] i = HttpMapIndex.PATCH -> "PATCH"
    [] i = HttpMapIndex.DELETE -> "DELETE"

\* C9 (as claimed): after parent.use(P, S), for every static key k of S under
\* a method M the parent's static map for M holds join(P, k) without its
\* trailing slash, and a dispatch of M for that path on the parent selects
\* it and runs the chain S holds for k.
C9_PrefixMountStatic ==
  last.op = "usePathRouter" =>
    \A i \in MapIndexes \ {HttpMapIndex.MIDDLEWARE} :
      LET source == httpMethodMap[last.source][i].staticRouteMap
      IN  \A j \in 1..Len(source) :
            LET key == stripTrailingSlash(pathJoin(last.uri, source[j].k))
                res == dispatch(Store, last.router, methodOf(i), key)
            IN  /\ hasKey(httpMethodMap[last.router][i].staticRouteMap, key)
                /\ res.sel.kind = "static"
                /\ res.sel.chain = heap[source[j].v].callbacks

\* The top level middleware chain of router r in the tables maps and heap hp.
middlewareChain(maps, hp, r) ==
  LET map == maps[r][HttpMapIndex.MIDDLEWARE].staticRouteMap
  IN  IF \E j \in 1..Len(map) : map[j].k = TopLevelMiddleware
      THEN hp[map[CHOOSE j \in 1..Len(map) : map[j].k = TopLevelMiddleware].v].callbacks
      ELSE <<>>

\* C10: a call parent.use(S) leaves the parent with its previous top level
\* middleware chain followed by the chain of S.
C10_MountAppendsMiddleware ==
  [][ last'.op = "useRouter" =>
        middlewareChain(httpMethodMap', heap', last'.router)
          = middlewareChain(httpMethodMap, heap, last'.router)
              \o middlewareChain(httpMethodMap, heap, last'.source) ]_vars

\* After a mount the parent holds its own two middlewares followed by the
\* three of the mounted router.
C10_Witness ==
  /\ last.op = "useRouter"
  /\ middlewareChain(httpMethodMap, heap, last.router) = chainA \o chainB
  /\ middlewareChain(httpMethodMap, heap, last.source) = chainB

\* The calls that register handlers.
RegistrationOps == {"get", "post", "put", "patch", "delete", "all", "usePath", "use"}

\* C11: a registration call given no handler (get, post, put, patch, delete
\* or all with only a pattern, use() with no argument, use(pattern) with no
\* handler) raises and leaves every route table unchanged.
C11_NoHandlerRaises ==
  [][ (last'.op \in RegistrationOps /\ last'.fn = <<>>) =>
        /\ last'.threw
        /\ httpMethodMap' = httpMethodMap
        /\ heap' = heap ]_vars

\* all('/a') without a handler raised on a router that holds routes and
\* middleware.
C11_Witness ==
  /\ last.op = "all" /\ last.fn = <<>> /\ last.threw
  /\ httpMethodMap[last.router][HttpMapIndex.GET].staticRouteMap # <<>>
  /\ httpMethodMap[last.router][HttpMapIndex.MIDDLEWARE].staticRouteMap # <<>>

\* The segments of the path the last dispatch matched on.
dispatchedPathNames == Tail(split(last.res.url, "/"))

\* C12: in every dispatch, an entry of the partition map is tested only
\* against a request path that has as many segments as the entry's pattern
\* (its literal and :name segments), whether the entry was registered
\* directly, mounted without a prefix or mounted on a prefix.
C12_TestedInOwnPartition ==
  Dispatched =>
    \A t \in 1..Len(last.res.tested) :
      Len(dispatchedEntries[last.res.tested[t]].pathNames)
        = Len(dispatchedPathNames)

\* A dispatch of /p/z that tested the entry /p/:x, which a mount on /p made
\* of the entry /:x of the mounted router.
C12_Witness ==
  /\ Dispatched
  /\ last.res.tested # <<>>
  /\ dispatchedEntries[last.res.tested[1]].pathNames = << <<"p">>, <<":", "x">> >>
  /\ Len(dispatchedPathNames) = 2

\* The positions of the entries of the dispatched bucket that match the path
\* of the last dispatch.
matchingEntries ==
  {j \in 1..Len(dispatchedEntries) : entryMatches(dispatchedEntries[j], last.res.url)}

earliestMatch == CHOOSE j \in matchingEntries : \A k \in matchingEntries : j <= k

\* The last call registered a dynamic pattern.
RegisteredDynamic ==
  /\ last.op \in {"get", "post", "put", "patch", "delete"}
  /\ ~last.threw
  /\ ~regexCheckStaticURL(last.uri)

\* C13: when entries of the path's bucket match and no static key matches,
\* the dispatch selects the matching entry that comes first in the bucket and
\* the route handlers it calls are handlers of that entry's chain, in order;
\* and the bucket is in registration order: a registration puts its entry
\* behind the entries the bucket holds.
C13_EarliestMatchWins ==
  /\ [] ( ( /\ Dispatched
             /\ ~hasKey(dispatchedStatic, last.res.url)
             /\ matchingEntries # {} )
           => /\ last.res.sel.kind = "dynamic"
              /\ last.res.sel.index = earliestMatch
              /\ last.res.sel.chain = dispatchedEntries[earliestMatch].callbacks
              /\ Len(routeCalls) <= Len(last.res.sel.chain)
              /\ handlersOf(routeCalls)
                   = SubSeq(last.res.sel.chain, 1, Len(routeCalls)) )
  /\ [][ RegisteredDynamic' =>
           LET i == methodMapIndex(last'.op)
               b == Len(split(last'.uri, "/")) - 1
               before == entriesOf(Store, last'.router, i, b)
               after == entriesOf([maps |-> httpMethodMap', heap |-> heap'],
                                  last'.router, i, b)
           IN  /\ Len(after) = Len(before) + 1
               /\ SubSeq(after, 1, Len(before)) = before
               /\ after[Len(after)].callbacks = last'.fn
               /\ after[Len(after)].pathNames = Tail(split(last'.uri, "/")) ]_vars

\* /a/:x and /:x/b, registered in that order with different chains, both
\* match /a/b; the chain of /a/:x ran.
C13_Witness ==
  /\ Dispatched /\ last.res.sel.kind = "dynamic"
  /\ matchingEntries = {1, 2}
  /\ dispatchedEntries[1].callbacks = chainA
  /\ dispatchedEntries[2].callbacks = chainB
  /\ handlersOf(routeCalls) = chainA

\* The entries of every bucket of every partition map, each with its bucket.
allEntries ==
  UNION { { [bucket |-> p.bucket, entry |-> heap[p.v].entries[j]] :
              j \in 1..Len(heap[p.v].entries) } :
          p \in UNION { httpMethodMap[r][i].namedRoutePartitionMap :
                          r \in Routers, i \in MapIndexes } }

\* The keys of every static map.
allStaticKeys ==
  UNION { { httpMethodMap[r][i].staticRouteMap[j].k :
              j \in 1..Len(httpMethodMap[r][i].staticRouteMap) } :
          r \in Routers, i \in MapIndexes }

\* The pattern of an entry has a :name segment or a character outside the
\* static class.
isDynamicPattern(e) ==
  \/ \E n \in 1..Len(e.pathNames) :
        Len(e.pathNames[n]) > 0 /\ e.pathNames[n][1] = ":"
  \/ \E n \in 1..Len(e.pathNames) :
        \E c \in 1..Len(e.pathNames[n]) : e.pathNames[n][c] \notin StaticChars

\* C14 (as claimed): after any sequence of registrations and mounts, every
\* key of every static map is a parameter-free path over the static
\* character class and every entry of every partition map has a pattern with
\* a :name segment or a character outside the static class.
C14_TablesSeparated ==
  /\ \A k \in allStaticKeys : regexCheckStaticURL(k)
  /\ \A x \in allEntries : isDynamicPattern(x.entry)

\* C15 (as claimed): every entry stored in bucket b of a partition map has
\* exactly b + 1 path segments (pathNames).
C15_BucketPlusOne ==
  \A x \in allEntries : Len(x.entry.pathNames) = x.bucket + 1

\* C15 (amended): every entry stored in bucket b of a partition map has
\* exactly b path segments (pathNames), after any sequence of registrations
\* and mounts.
C15_BucketIsSegmentCount ==
  \A x \in allEntries : Len(x.entry.pathNames) = x.bucket

\* The regex entry /:x/b$ of the mounted router was rewritten to /p/:x/b$ in
\* bucket 3, next to a directly registered entry in bucket 2.
C15_Witness ==
  /\ \E x \in allEntries :
        /\ x.bucket = 3 /\ x.entry.useRegex
        /\ x.entry.pathNames = << <<"p">>, <<":", "x">>, <<"b", "$">> >>
  /\ \E x \in allEntries :
        x.bucket = 2 /\ x.entry.pathNames = << <<"p">>, <<":", "y">> >>

\* The calls that configure a router.
ConfigurationOps == RegistrationOps \cup {"useRouter", "usePathRouter"}

\* Sequence a is a prefix of sequence b.
isPrefix(a, b) == Len(a) <= Len(b) /\ a = SubSeq(b, 1, Len(a))

\* C16 (as claimed): under every configuration call on a router, each static
\* key the router held before the call (the middleware key "/" included) is
\* held after it, and its chain before the call is a prefix of its chain
\* after the call.
C16_StaticChainsAppendOnly ==
  [][ last'.op \in ConfigurationOps =>
        \A i \in MapIndexes :
          LET before == httpMethodMap[last'.router][i].staticRouteMap
              after == httpMethodMap'[last'.router][i].staticRouteMap
          IN  \A j \in 1..Len(before) :
                /\ hasKey(after, before[j].k)
                /\ isPrefix(heap[before[j].v].callbacks,
                            heap'[refOf(after, before[j].k)].callbacks) ]_vars

\* C17 (as claimed): after target.use(P, S), for every method and every
\* dynamic entry e of S the target holds the rewritten entry in the
\* recomputed bucket, and the entries the target held in a bucket before the
\* mount are still there, in their order, ahead of the inserted entries.
C17_PrefixMountDynamic ==
  [][ last'.op = "usePathRouter" =>
        \A i \in MapIndexes :
          LET bucketsOf(r) == {p.bucket : p \in httpMethodMap[r][i].namedRoutePartitionMap}
              after(b) == entriesOf([maps |-> httpMethodMap', heap |-> heap'],
                                    last'.router, i, b)
          IN  /\ \A b \in bucketsOf(last'.source) :
                   LET src == entriesOf(Store, last'.source, i, b)
                   IN  \A j \in 1..Len(src) :
                         LET keyDest == stripTrailingSlash(
                                          pathJoin(last'.uri, join(src[j].pathNames, "/")))
                             bucket == Len(Tail(split(keyDest, "/")))
                         IN  \E n \in 1..Len(after(bucket)) :
                               /\ after(bucket)[n].pathNames = Tail(split(keyDest, "/"))
                               /\ after(bucket)[n].callbacks = src[j].callbacks
                               /\ after(bucket)[n].useRegex = ~regexCheckNamedPath(keyDest)
              /\ \A b \in bucketsOf(last'.router) :
                   isPrefix(entriesOf(Store, last'.router, i, b), after(b)) ]_vars

\* C18 (as claimed): target.use(S) on a target whose static map for a method
\* is not empty does not raise; for that method a key of both maps gets the
\* target's chain followed by the chain of S, and a key of S alone is not
\* added to the target.
C18_MergeIntoNonEmptyMap ==
  [][ last'.op = "useRouter" =>
        \A i \in MapIndexes :
          LET target == httpMethodMap[last'.router][i].staticRouteMap
              source == httpMethodMap[last'.source][i].staticRouteMap
              after == httpMethodMap'[last'.router][i].staticRouteMap
          IN  target # <<>> =>
                /\ ~last'.threw
                /\ \A j \in 1..Len(source) :
                     IF hasKey(target, source[j].k)
                     THEN /\ hasKey(after, source[j].k)
                          /\ heap'[refOf(after, source[j].k)].callbacks
                               = heap[refOf(target, source[j].k)].callbacks
                                   \o heap[source[j].v].callbacks
                     ELSE ~hasKey(after, source[j].k) ]_vars

\* C19 (as claimed): in a matched dispatch, a top level middleware handler
\* that returns a truthy value is the last handler called, the response is
\* ended and no handler of the matched chain is called.
C19_MiddlewareStopSignal ==
  (Dispatched /\ last.res.sel.kind # "none") =>
    \A n \in 1..Len(last.res.log) :
      ( last.res.log[n].by = "middleware"
        /\ Returns(last.res.log[n].h) = "truthy" )
      => /\ n = Len(last.res.log)
         /\ last.res.ends >= 1
         /\ routeCalls = <<>>

\* C20 (as claimed): when a top level middleware or a route handler raises
\* during a dispatch, no exception leaves dispatch, no later handler is
\* called and the response is 404 "Route not found", also when a handler had
\* ended the response before the exception was raised.
C20_ExceptionBecomesNotFound ==
  last.op = "dispatch" =>
    \A n \in 1..Len(last.res.log) :
      Returns(last.res.log[n].h) = "throw"
      => /\ ~last.res.raised
         /\ n = Len(last.res.log)
         /\ last.res.status = 404
         /\ last.res.body = "Route not found"

\* The parameter bag that binds every :name segment of entry e, and nothing
\* else, to the segment of the path at its position.
paramsOfEntry(e, pathNames) ==
  { [name |-> Tail(e.pathNames[n]), value |-> pathNames[n]] :
      n \in { m \in 1..Len(e.pathNames) :
                Len(e.pathNames[m]) > 0 /\ e.pathNames[m][1] = ":" } }

\* C21 (as claimed): when a dispatch selects a dynamic entry e, the request's
\* parameter bag holds exactly the parameter names of e, each bound to the
\* segment of the request path at its position, and no binding written while
\* an earlier entry of the bucket was tested and failed to match.
C21_ParamsOfSelectedEntry ==
  (Dispatched /\ last.res.sel.kind = "dynamic") =>
    last.res.params
      = paramsOfEntry(dispatchedEntries[last.res.sel.index], dispatchedPathNames)

\* The content of the route tables of router r in the tables maps and heap
\* hp: the chain of every static key and the entries of every bucket.
tablesOf(maps, hp, r) ==
  [i \in MapIndexes |->
     [static |-> [j \in 1..Len(maps[r][i].staticRouteMap) |->
                    [k |-> maps[r][i].staticRouteMap[j].k,
                     callbacks |-> hp[maps[r][i].staticRouteMap[j].v].callbacks]],
      named |-> { [bucket |-> p.bucket, entries |-> hp[p.v].entries] :
                    p \in maps[r][i].namedRoutePartitionMap }]]

\* C22 (as claimed): routers stay independent, also after a mount: a
\* registration or a mount performed on one router leaves the static chains,
\* the global middleware chain and the bucket lists of every other router
\* unchanged.
C22_RoutersIndependent ==
  [][ last'.op \in ConfigurationOps =>
        \A r \in Routers \ {last'.router} :
          tablesOf(httpMethodMap', heap', r) = tablesOf(httpMethodMap, heap, r) ]_vars

====
